---- MODULE Spec2Model ----
(***************************************************************************)
(* A model of the deterministic finite automaton of src/main.rs:           *)
(* DFA::from_string (the line-oriented parser), create_transitions_for_dfa *)
(* and DFA::run.  Text is modelled as TLA+ strings; a Rust `char` is a     *)
(* string of length one.  An Rc<RefCell<Node>> is the index of the node in *)
(* `states`; the index 0 is the node that DFA::from_string allocates for   *)
(* `start_state` before it reads any line, which is in no state list.      *)
(***************************************************************************)
EXTENDS Integers, Sequences, FiniteSets, TLC

(***************************************************************************)
(* Bounds of the model.                                                    *)
(***************************************************************************)
MaxLines == 4
MaxWord == 2

(***************************************************************************)
(* The string functions of the Rust standard library that the parser uses. *)
(***************************************************************************)
CharAt(s, i) == SubSeq(s, i, i)

starts_with(s, p) == Len(s) >= Len(p) /\ SubSeq(s, 1, Len(p)) = p

RECURSIVE trim_start(_)
trim_start(s) ==
    IF Len(s) > 0 /\ CharAt(s, 1) = " " THEN trim_start(SubSeq(s, 2, Len(s))) ELSE s

RECURSIVE trim_end(_)
trim_end(s) ==
    IF Len(s) > 0 /\ CharAt(s, Len(s)) = " " THEN trim_end(SubSeq(s, 1, Len(s) - 1)) ELSE s

trim(s) == trim_end(trim_start(s))

RECURSIVE trim_start_matches(_, _)
trim_start_matches(s, p) ==
    IF Len(p) > 0 /\ starts_with(s, p)
    THEN trim_start_matches(SubSeq(s, Len(p) + 1, Len(s)), p)
    ELSE s

\* str::replace(c, ""): every occurrence of the character c is removed.
RECURSIVE replace_with_empty(_, _)
replace_with_empty(s, c) ==
    IF Len(s) = 0 THEN ""
    ELSE IF CharAt(s, 1) = c THEN replace_with_empty(SubSeq(s, 2, Len(s)), c)
    ELSE CharAt(s, 1) \o replace_with_empty(SubSeq(s, 2, Len(s)), c)

\* str::trim_matches(|c| c == '{' || c == '}')
RECURSIVE trim_matches_braces(_)
trim_matches_braces(s) ==
    IF Len(s) > 0 /\ CharAt(s, 1) \in {"{", "}"}
    THEN trim_matches_braces(SubSeq(s, 2, Len(s)))
    ELSE IF Len(s) > 0 /\ CharAt(s, Len(s)) \in {"{", "}"}
    THEN trim_matches_braces(SubSeq(s, 1, Len(s) - 1))
    ELSE s

\* The position of the first occurrence of the pattern p in s, 0 when none.
RECURSIVE find_from(_, _, _)
find_from(s, p, i) ==
    IF i + Len(p) - 1 > Len(s) THEN 0
    ELSE IF SubSeq(s, i, i + Len(p) - 1) = p THEN i
    ELSE find_from(s, p, i + 1)

\* str::split(p): the pieces between the occurrences of p, at least one piece.
RECURSIVE split(_, _)
split(s, p) ==
    LET i == find_from(s, p, 1)
    IN  IF i = 0 THEN <<s>>
        ELSE <<SubSeq(s, 1, i - 1)>> \o split(SubSeq(s, i + Len(p), Len(s)), p)

(***************************************************************************)
(* Nodes.  `transitions` is a function from the symbols that have a        *)
(* transition to the index of the destination node.                        *)
(***************************************************************************)
None == -1

HashMap_new == [c \in {} |-> 0]

\* HashMap::entry(k).or_insert(v): a key already present keeps its value.
HashMap_insert_keep_existing(m, k, v) ==
    [c \in (DOMAIN m) \cup {k} |-> IF c \in DOMAIN m THEN m[c] ELSE v]

HashMap_insert(m, k, v) == [c \in (DOMAIN m) \cup {k} |-> IF c = k THEN v ELSE m[c]]

Node_new(state, is_accept) ==
    [state |-> state, is_accept |-> is_accept, transitions |-> HashMap_new]

\* The node `Node::new("", false)` that from_string binds to start_state first.
InitialStartNode == Node_new("", FALSE)

\* The node `Node::new("Empty", false)` that define_start_states returns for
\* an empty state list; like the initial start node it is in no state list.
EmptyStartNode == Node_new("Empty", FALSE)

EmptyPtr == -2

Deref(sts, ptr) ==
    IF ptr = 0 THEN InitialStartNode
    ELSE IF ptr = EmptyPtr THEN EmptyStartNode
    ELSE sts[ptr]

\* add_transition storing a node that is in no state list (the placeholder)
\* in place of the node it was given.
add_transition_to_placeholder(sts, node, symbol, to) ==
    [sts EXCEPT ![node].transitions = HashMap_insert(@, symbol, 0)]

add_transition(sts, node, symbol, to) ==
    [sts EXCEPT ![node].transitions = HashMap_insert(@, symbol, to)]

\* next_state looking up whatever key the map holds instead of `symbol`.
next_state_any_key(node, symbol) ==
    IF DOMAIN node.transitions # {}
    THEN node.transitions[CHOOSE c \in DOMAIN node.transitions : TRUE]
    ELSE None

next_state(node, symbol) ==
    IF symbol \in DOMAIN node.transitions THEN node.transitions[symbol] ELSE None

\* states.iter().find(|s| s.borrow().state == name): the first match.
find_state(sts, name) ==
    IF \E i \in 1..Len(sts) : sts[i].state = name
    THEN CHOOSE i \in 1..Len(sts) :
            /\ sts[i].state = name
            /\ \A j \in 1..(i - 1) : sts[j].state # name
    ELSE None

(***************************************************************************)
(* The branches of the loop of DFA::from_string, one operator per branch.  *)
(***************************************************************************)
alphabet_line(alph, line) ==
    LET cs == replace_with_empty(
                  replace_with_empty(trim_start_matches(line, "alphabet="), "{"), "}")
    IN  alph \cup {CharAt(cs, i) : i \in {j \in 1..Len(cs) : CharAt(cs, j) \notin {",", " "}}}

\* state_line pushing the names as split() yields them, untrimmed.
state_line_untrimmed(sts, line) ==
    LET state_str == replace_with_empty(
                         replace_with_empty(trim_start_matches(line, "state="), "{"), "}")
        names == split(state_str, ",")
    IN  sts \o [i \in 1..Len(names) |-> Node_new(names[i], FALSE)]

state_line(sts, line) ==
    LET state_str == replace_with_empty(
                         replace_with_empty(trim_start_matches(line, "state="), "{"), "}")
        names == split(state_str, ",")
    IN  sts \o [i \in 1..Len(names) |-> Node_new(trim(names[i]), FALSE)]

\* start_state_line keeping the initial node when the name is unknown.
start_state_line_keep_initial(sts, line) ==
    LET found == find_state(sts, trim_start_matches(line, "start_state="))
    IN  IF found = None THEN 0 ELSE found

\* The index of the named state, None where the code's unwrap() panics.
start_state_line(sts, line) ==
    find_state(sts, trim_start_matches(line, "start_state="))

RECURSIVE filter_map_find(_, _)
filter_map_find(sts, names) ==
    IF Len(names) = 0 THEN <<>>
    ELSE LET found == find_state(sts, trim(Head(names)))
         IN  (IF found = None THEN <<>> ELSE <<found>>)
                 \o filter_map_find(sts, Tail(names))

\* final_states after the extend() of an `F=` line.
final_line_extend(sts, finals, line) ==
    LET final_state_str == trim_matches_braces(trim(trim_start_matches(line, "F=")))
    IN  finals \o filter_map_find(sts, split(final_state_str, ","))

\* Every node of final_states gets is_accept = true.
mark_accept(sts, finals) ==
    [i \in 1..Len(sts) |->
        IF \E k \in 1..Len(finals) : finals[k] = i
        THEN [sts[i] EXCEPT !.is_accept = TRUE]
        ELSE sts[i]]

(***************************************************************************)
(* create_transitions_for_dfa(states, input): the state list afterwards,   *)
(* what it printed, and whether it panicked.                               *)
(***************************************************************************)
Panicked(sts) == [panicked |-> TRUE, states |-> sts, printed |-> <<>>]

missing_next_state(sts, next_state_name) ==
    [panicked |-> FALSE, states |-> sts,
     printed |-> <<"El estado destino \"" \o next_state_name \o "\" no existe.">>]

\* The panic!() branch taken over by a diagnostic: an unknown current state
\* is reported and the parse goes on.
connect_states_lenient(sts, state_input, symbol, next_state_name) ==
    LET current == find_state(sts, state_input)
        next == find_state(sts, next_state_name)
    IN  IF current = None
        THEN [panicked |-> FALSE, states |-> sts,
              printed |-> <<"El estado actual \"" \o state_input \o "\" no existe.">>]
        ELSE IF next = None THEN missing_next_state(sts, next_state_name)
        ELSE [panicked |-> FALSE,
              states |-> add_transition(sts, current, symbol, next),
              printed |-> <<>>]

\* The println!() branch taken over by a panic: an unknown destination aborts.
connect_states_strict(sts, state_input, symbol, next_state_name) ==
    LET current == find_state(sts, state_input)
        next == find_state(sts, next_state_name)
    IN  IF current = None \/ next = None THEN Panicked(sts)
        ELSE [panicked |-> FALSE,
              states |-> add_transition(sts, current, symbol, next),
              printed |-> <<>>]

\* The second half of create_transitions_for_dfa: look both states up and
\* add the transition.
connect_states(sts, state_input, symbol, next_state_name) ==
    LET current == find_state(sts, state_input)
        next == find_state(sts, next_state_name)
    IN  IF current = None THEN Panicked(sts)
        ELSE IF next = None THEN missing_next_state(sts, next_state_name)
        ELSE [panicked |-> FALSE,
              states |-> add_transition(sts, current, symbol, next),
              printed |-> <<>>]

create_transitions_for_dfa(sts, input) ==
    LET parts == split(input, "->")
    IN  IF Len(parts) < 2 THEN Panicked(sts)
        ELSE
        LET transition_part == trim(parts[1])
            next_state_name == trim(parts[2])
        IN  IF Len(transition_part) < 2 THEN Panicked(sts)
            ELSE
            LET transition_inner == SubSeq(transition_part, 2, Len(transition_part) - 1)
                transition_parts == split(transition_inner, ",")
            IN  IF Len(transition_parts) < 2 THEN Panicked(sts)
                ELSE
                LET state_input == trim(transition_parts[1])
                    symbol_input == trim(transition_parts[2])
                IN  IF Len(symbol_input) = 0 THEN Panicked(sts)
                    ELSE connect_states(sts, state_input, CharAt(symbol_input, 1),
                                        next_state_name)

(***************************************************************************)
(* The inputs of the model.                                                *)
(***************************************************************************)
\* The description that main() parses, as str::lines() yields it.
SampleText ==
    << "",
       "        alphabet={0,1}",
       "        state={q0, q1, q1q2, q2}",
       "        start_state=q0",
       "        F={q1q2, q2}",
       "        (q0, 1)->q1",
       "        (q0, 0)->q0",
       "        (q1, 1)->q1",
       "        (q1, 0)->q1q2",
       "        (q1q2, 0)->q1q2",
       "        (q1q2, 1)->q1q2",
       "        (q2, 0)->q2",
       "        (q2, 1)->q1q2",
       "    " >>

\* The words run on the sample automaton.
SampleInputs == {"0110", "0", ""}

\* The lines the other descriptions are made of.
GenLines ==
    { "alphabet={0}",
      "state={q0, q1}",
      "start_state=q1",
      "F={q1, q9}",
      "(q1, 1)->q0",
      "(q1, 1)->q1",
      "(q1, 0)->q9",
      "(q9, 0)->q1",
      "// nota" }

Texts == (UNION {[1..n -> GenLines] : n \in 0..MaxLines}) \cup {SampleText}

RunSymbols == {"0", "1"}

RECURSIVE Concat(_)
Concat(cs) == IF Len(cs) = 0 THEN "" ELSE Head(cs) \o Concat(Tail(cs))

Words == {Concat(cs) : cs \in UNION {[1..n -> RunSymbols] : n \in 0..MaxWord}}
             \cup SampleInputs

(***************************************************************************)
(* The state of the program.                                               *)
(***************************************************************************)
VARIABLES
    text,           \* the lines of dfa_string
    line_no,        \* how many of them the loop of from_string has consumed
    alphabet,       \* DFA.alphabet
    states,         \* DFA.states
    start_state,    \* DFA.start_state, an index into states or 0
    final_states,   \* the local final_states of from_string
    pc,             \* "parsing", "panicked", "built", "running", "returned"
    input,          \* the argument of the current call of run
    pos,            \* the position in input of the next character
    current_state,  \* the local current_state of run
    result,         \* what run returned: "true", "false", "none" before
    prev_result,    \* what the call before returned if it had the same input
    printed,        \* the lines printed by the operation in progress
    constructor,    \* which constructor builds the automaton: "from_string", "new"
    size,           \* the local size of create_alphabet, then of create_states
    slot,           \* the local i of create_alphabet, then of create_states
    pending_state,  \* the local state of create_states: the name just read
    row,            \* create_transitions: the index of the state being asked about
    symbols         \* create_transitions: what is left of the symbol iterator

dfa == <<alphabet, states, start_state>>
parser == <<text, line_no, final_states>>
runner == <<input, pos, current_state, result, prev_result>>
builder == <<constructor, size, slot, pending_state, row, symbols>>
vars == <<text, line_no, alphabet, states, start_state, final_states, pc,
          input, pos, current_state, result, prev_result, printed,
          constructor, size, slot, pending_state, row, symbols>>

\* The call DFA::from_string(text) after the bindings of lines 38-41.
from_string_called ==
    /\ constructor = "from_string"
    /\ text \in Texts
    /\ start_state = 0
    /\ pc = "parsing"
    /\ printed = <<>>

\* The call DFA::new() waiting at the first prompt of create_alphabet; no
\* start state is bound before define_start_states returns.
new_called ==
    /\ constructor = "new"
    /\ text = <<>>
    /\ start_state = None
    /\ pc = "alphabet_size"
    /\ printed = <<"Ingrese la cardinalidad del alfabeto: ">>

Init ==
    /\ from_string_called \/ new_called
    /\ line_no = 0
    /\ alphabet = {}
    /\ states = <<>>
    /\ final_states = <<>>
    /\ input = ""
    /\ pos = 1
    /\ current_state = 0
    /\ result = "none"
    /\ prev_result = "none"
    /\ size = 0
    /\ slot = 0
    /\ pending_state = ""
    /\ row = 0
    /\ symbols = <<>>

(***************************************************************************)
(* DFA::from_string: one action per branch of the loop body.               *)
(***************************************************************************)
HasLine == pc = "parsing" /\ line_no < Len(text)

CurrentLine == trim(text[line_no + 1])

LineKind(line) ==
    IF starts_with(line, "alphabet=") THEN "alphabet"
    ELSE IF starts_with(line, "state=") THEN "state"
    ELSE IF starts_with(line, "start_state=") THEN "start_state"
    ELSE IF starts_with(line, "F=") THEN "F"
    ELSE IF starts_with(line, "(") THEN "transition"
    ELSE "other"

AlphabetLine ==
    /\ HasLine
    /\ LineKind(CurrentLine) = "alphabet"
    /\ alphabet' = alphabet_line(alphabet, CurrentLine)
    /\ line_no' = line_no + 1
    /\ UNCHANGED <<builder, text, states, start_state, final_states, pc, runner, printed>>

\* The `state=` branch resolving forward references: a new state that an
\* earlier `F=` line named is created accepting.
StateLine_resolving_forward ==
    /\ HasLine
    /\ LineKind(CurrentLine) = "state"
    /\ LET new == state_line(<<>>, CurrentLine)
           named(n) ==
               \E j \in 1..line_no :
                   /\ LineKind(trim(text[j])) = "F"
                   /\ LET ps == split(trim_matches_braces(trim(
                                    trim_start_matches(trim(text[j]), "F="))), ",")
                      IN  \E k \in 1..Len(ps) : trim(ps[k]) = n
       IN  states' = states \o [k \in 1..Len(new) |->
                                   [new[k] EXCEPT !.is_accept = named(new[k].state)]]
    /\ line_no' = line_no + 1
    /\ UNCHANGED <<builder, text, alphabet, start_state, final_states, pc, runner, printed>>

StateLine ==
    /\ HasLine
    /\ LineKind(CurrentLine) = "state"
    /\ states' = state_line(states, CurrentLine)
    /\ line_no' = line_no + 1
    /\ UNCHANGED <<builder, text, alphabet, start_state, final_states, pc, runner, printed>>

StartStateLine ==
    /\ HasLine
    /\ LineKind(CurrentLine) = "start_state"
    /\ LET found == start_state_line(states, CurrentLine)
       IN  IF found = None
           THEN pc' = "panicked" /\ UNCHANGED start_state
           ELSE start_state' = found /\ UNCHANGED pc
    /\ line_no' = line_no + 1
    /\ UNCHANGED <<builder, text, alphabet, states, final_states, runner, printed>>

FinalLine ==
    /\ HasLine
    /\ LineKind(CurrentLine) = "F"
    /\ final_states' = final_line_extend(states, final_states, CurrentLine)
    /\ states' = mark_accept(states, final_states')
    /\ line_no' = line_no + 1
    /\ UNCHANGED <<builder, text, alphabet, start_state, pc, runner, printed>>

TransitionLine ==
    /\ HasLine
    /\ LineKind(CurrentLine) = "transition"
    /\ LET r == create_transitions_for_dfa(states, CurrentLine)
       IN  /\ states' = r.states
           /\ printed' = printed \o r.printed
           /\ pc' = IF r.panicked THEN "panicked" ELSE pc
    /\ line_no' = line_no + 1
    /\ UNCHANGED <<builder, text, alphabet, start_state, final_states, runner>>

\* A strict parser: a line that no branch recognises aborts the parse.
OtherLine_aborting ==
    /\ HasLine
    /\ LineKind(CurrentLine) = "other"
    /\ line_no' = line_no + 1
    /\ pc' = "panicked"
    /\ UNCHANGED <<builder, text, dfa, final_states, runner, printed>>

OtherLine ==
    /\ HasLine
    /\ LineKind(CurrentLine) = "other"
    /\ line_no' = line_no + 1
    /\ UNCHANGED <<builder, text, dfa, final_states, pc, runner, printed>>

\* The loop is over: from_string returns DFA { alphabet, states, start_state }.
ReturnDFA ==
    /\ pc = "parsing"
    /\ line_no = Len(text)
    /\ pc' = "built"
    /\ UNCHANGED <<builder, parser, dfa, runner, printed>>

(***************************************************************************)
(* DFA::run, one action per iteration of its loop.                         *)
(***************************************************************************)
\* run starting at the first declared state instead of self.start_state.
RunCall_from_first_state(w) ==
    /\ pc \in {"built", "returned"}
    /\ input' = w
    /\ pos' = 1
    /\ current_state' = IF Len(states) > 0 THEN 1 ELSE 0
    /\ result' = "none"
    /\ prev_result' = IF pc = "returned" /\ input = w THEN result ELSE "none"
    /\ printed' = <<>>
    /\ pc' = "running"
    /\ UNCHANGED <<builder, parser, dfa>>

RunCall(w) ==
    /\ pc \in {"built", "returned"}
    /\ input' = w
    /\ pos' = 1
    /\ current_state' = start_state
    /\ result' = "none"
    /\ prev_result' = IF pc = "returned" /\ input = w THEN result ELSE "none"
    /\ printed' = <<>>
    /\ pc' = "running"
    /\ UNCHANGED <<builder, parser, dfa>>

\* run skipping a symbol that has no transition instead of returning false.
RunStep_skipping ==
    /\ pc = "running"
    /\ pos <= Len(input)
    /\ LET c == CharAt(input, pos)
           next == next_state(Deref(states, current_state), c)
       IN  /\ current_state' = IF next # None THEN next ELSE current_state
           /\ pos' = pos + 1
           /\ printed' = IF next # None THEN printed
                         ELSE <<"No hay transición para el símbolo " \o c>>
    /\ UNCHANGED <<builder, parser, dfa, input, prev_result, result, pc>>

\* run rejecting a symbol that is not in the alphabet before the lookup.
RunStep_checking_alphabet ==
    /\ pc = "running"
    /\ pos <= Len(input)
    /\ LET c == CharAt(input, pos)
           next == IF c \in alphabet
                   THEN next_state(Deref(states, current_state), c)
                   ELSE None
       IN  IF next # None
           THEN /\ current_state' = next
                /\ pos' = pos + 1
                /\ UNCHANGED <<result, pc, printed>>
           ELSE /\ printed' = <<"No hay transición para el símbolo " \o c>>
                /\ result' = "false"
                /\ pc' = "returned"
                /\ UNCHANGED <<current_state, pos>>
    /\ UNCHANGED <<builder, parser, dfa, input, prev_result>>

RunStep ==
    /\ pc = "running"
    /\ pos <= Len(input)
    /\ LET c == CharAt(input, pos)
           next == next_state(Deref(states, current_state), c)
       IN  IF next # None
           THEN /\ current_state' = next
                /\ pos' = pos + 1
                /\ UNCHANGED <<result, pc, printed>>
           ELSE /\ printed' = <<"No hay transición para el símbolo " \o c>>
                /\ result' = "false"
                /\ pc' = "returned"
                /\ UNCHANGED <<current_state, pos>>
    /\ UNCHANGED <<builder, parser, dfa, input, prev_result>>

\* run consuming the accept flag of the state it ends in.
RunEnd_clearing_flag ==
    /\ pc = "running"
    /\ pos > Len(input)
    /\ IF Deref(states, current_state).is_accept
       THEN /\ result' = "true"
            /\ states' = [states EXCEPT ![current_state].is_accept = FALSE]
            /\ UNCHANGED printed
       ELSE /\ result' = "false"
            /\ printed' = <<"La palabra terminó en el estado: "
                                \o Deref(states, current_state).state>>
            /\ UNCHANGED states
    /\ pc' = "returned"
    /\ UNCHANGED <<builder, parser, alphabet, start_state, input, pos, current_state, prev_result>>

RunEnd ==
    /\ pc = "running"
    /\ pos > Len(input)
    /\ IF Deref(states, current_state).is_accept
       THEN result' = "true" /\ UNCHANGED printed
       ELSE /\ result' = "false"
            /\ printed' = <<"La palabra terminó en el estado: "
                                \o Deref(states, current_state).state>>
    /\ pc' = "returned"
    /\ UNCHANGED <<builder, parser, dfa, input, pos, current_state, prev_result>>

(***************************************************************************)
(* The render operations.  Each prints to the console; `printed` holds the *)
(* lines of the last one.  A HashSet and a HashMap iterate in an order the *)
(* program does not fix, so every order is a possible output.  The locals  *)
(* of a call of run that has returned are gone once another operation of   *)
(* the automaton is called.                                                *)
(***************************************************************************)
RECURSIVE JoinWith(_, _)
JoinWith(pieces, sep) ==
    IF Len(pieces) = 0 THEN ""
    ELSE IF Len(pieces) = 1 THEN pieces[1]
    ELSE pieces[1] \o sep \o JoinWith(Tail(pieces), sep)

\* The orders in which the elements of a set can be iterated.
Orders(S) ==
    {f \in [1..Cardinality(S) -> S] : \A a, b \in 1..Cardinality(S) : f[a] = f[b] => a = b}

states_text(sts) ==
    "{" \o JoinWith([k \in 1..Len(sts) |-> sts[k].state], ", ") \o "}"

alphabet_texts(alph) ==
    {"{" \o JoinWith([k \in 1..Len(o) |-> "'" \o o[k] \o "'"], ", ") \o "}" : o \in Orders(alph)}

start_state_text(sts, start) == Deref(sts, start).state

accept_states_text(sts) ==
    states_text(SelectSeq(sts, LAMBDA n : n.is_accept))

\* The lines print_transitions prints for one state, in every order.
node_transition_lines(sts, k) ==
    {[j \in 1..Len(o) |->
        "δ(" \o sts[k].state \o ", " \o o[j] \o ") = " \o sts[sts[k].transitions[o[j]]].state]
     : o \in Orders(DOMAIN sts[k].transitions)}

RECURSIVE transition_lines(_, _)
\* The lines print_transitions prints for the states from the k-th on.
transition_lines(sts, k) ==
    IF k > Len(sts) THEN {<<>>}
    ELSE {a \o b : a \in node_transition_lines(sts, k), b \in transition_lines(sts, k + 1)}

tupla_texts(alph, sts, start) ==
    {"A = <Q = " \o states_text(sts) \o ", Σ = " \o a \o ", "
        \o start_state_text(sts, start) \o ", δ, F = " \o accept_states_text(sts) \o ">"
     : a \in alphabet_texts(alph)}

Idle == pc \in {"built", "returned"}

\* What every render operation does besides printing.
Rendered ==
    /\ pc' = "built"
    /\ input' = ""
    /\ pos' = 1
    /\ current_state' = 0
    /\ result' = "none"
    /\ prev_result' = "none"
    /\ UNCHANGED <<builder, parser>>

print_states ==
    /\ Idle
    /\ printed' = <<states_text(states)>>
    /\ Rendered
    /\ UNCHANGED dfa

print_alphabet ==
    /\ Idle
    /\ \E t \in alphabet_texts(alphabet) : printed' = <<t>>
    /\ Rendered
    /\ UNCHANGED dfa

print_start_state ==
    /\ Idle
    /\ printed' = <<start_state_text(states, start_state)>>
    /\ Rendered
    /\ UNCHANGED dfa

print_accept_states ==
    /\ Idle
    /\ printed' = <<accept_states_text(states)>>
    /\ Rendered
    /\ UNCHANGED dfa

\* print_transitions iterating with drain(): every map is empty afterwards.
print_transitions_draining ==
    /\ Idle
    /\ \E ls \in transition_lines(states, 1) : printed' = ls
    /\ Rendered
    /\ states' = [k \in 1..Len(states) |-> [states[k] EXCEPT !.transitions = HashMap_new]]
    /\ UNCHANGED <<alphabet, start_state>>

print_transitions ==
    /\ Idle
    /\ \E ls \in transition_lines(states, 1) : printed' = ls
    /\ Rendered
    /\ UNCHANGED dfa

tupla ==
    /\ Idle
    /\ \E t \in tupla_texts(alphabet, states, start_state) : printed' = <<t>>
    /\ Rendered
    /\ UNCHANGED dfa

(***************************************************************************)
(* DFA::new: the automaton is built from the answers typed at the prompts  *)
(* of create_alphabet, create_states, create_transitions and               *)
(* define_start_states.  One action per prompt; printed holds what the     *)
(* program printed since it read the last answer.                          *)
(***************************************************************************)
MaxCard == 2

Err == -1

Digits == "0123456789"

IsDigit(c) == \E d \in 1..Len(Digits) : CharAt(Digits, d) = c

DigitValue(c) == (CHOOSE d \in 1..Len(Digits) : CharAt(Digits, d) = c) - 1

RECURSIVE digits_value(_)
digits_value(s) ==
    IF Len(s) = 0 THEN 0
    ELSE digits_value(SubSeq(s, 1, Len(s) - 1)) * Len(Digits) + DigitValue(CharAt(s, Len(s)))

\* str::parse::<usize>: decimal digits after an optional plus sign.
parse_usize(s) ==
    LET body == IF starts_with(s, "+") THEN SubSeq(s, 2, Len(s)) ELSE s
    IN  IF Len(body) > 0 /\ \A k \in 1..Len(body) : IsDigit(CharAt(body, k))
        THEN digits_value(body)
        ELSE Err

\* The answers typed at the prompts.
CardinalityAnswers == {ToString(n) : n \in 0..MaxCard} \cup {"x"}
SymbolAnswers == {"0", "10", ""}
NameAnswers == {"q0", " q1"}
AcceptAnswers == {"s", "n", "x"}
TargetAnswers == {"q0", " q1", "q9"}

\* The prompt the program prints before it reads the next answer.
Prompt(p, idx, sts, r, syms) ==
    IF p = "alphabet_size" THEN <<"Ingrese la cardinalidad del alfabeto: ">>
    ELSE IF p = "alphabet_symbol"
    THEN <<"Ingrese el símbolo " \o ToString(idx + 1) \o ": ">>
    ELSE IF p = "states_size"
    THEN <<"Ingrese la cardinalidad del conjunto de los estados: ">>
    ELSE IF p = "state_name"
    THEN <<"Ingrese el nombre del estado " \o ToString(idx) \o ": ">>
    ELSE IF p = "state_accept" THEN <<"Es estado de aceptacion? (s/n): ">>
    ELSE IF p = "transition"
    THEN <<"Ingrese el estado al que se transiciona \"" \o sts[r].state
            \o "\" con el símbolo " \o Head(syms) \o ": ">>
    ELSE IF p = "start_state" THEN <<"Ingrese el estado inicial: ">>
    ELSE <<>>

Prompted(diagnostics) ==
    printed' = diagnostics \o Prompt(pc', slot', states', row', symbols')

Building(p) == constructor = "new" /\ pc = p

\* The HashSet states_name of create_states: whenever a name is read it
\* holds the names of the states pushed so far.
states_name == {states[k].state : k \in 1..Len(states)}

\* What DFA::new does between the return of create_states with sts and the
\* next answer it reads: the loops of create_transitions up to their first
\* prompt, and define_start_states up to its prompt or its early return.
enter_create_transitions(sts) ==
    IF Len(sts) = 0
    THEN pc' = "built" /\ start_state' = EmptyPtr /\ row' = 0 /\ symbols' = <<>>
    ELSE IF alphabet = {}
    THEN pc' = "start_state" /\ row' = 0 /\ symbols' = <<>> /\ UNCHANGED start_state
    ELSE pc' = "transition" /\ row' = 1 /\ symbols' \in Orders(alphabet)
            /\ UNCHANGED start_state

\* The for loops of create_transitions after a transition was added.
next_pair ==
    IF Len(symbols) > 1
    THEN pc' = "transition" /\ row' = row /\ symbols' = Tail(symbols)
    ELSE IF row < Len(states)
    THEN pc' = "transition" /\ row' = row + 1 /\ symbols' \in Orders(alphabet)
    ELSE pc' = "start_state" /\ row' = 0 /\ symbols' = <<>>

create_alphabet_size ==
    /\ Building("alphabet_size")
    /\ UNCHANGED <<alphabet, states, start_state, pending_state, row, symbols,
                   constructor, parser, runner>>
    /\ \E answer \in CardinalityAnswers :
         LET parsed == parse_usize(trim(answer))
         IN  IF parsed = Err
             THEN /\ UNCHANGED <<size, slot, pc>>
                  /\ Prompted(<<"Error al leer la entrada.">>)
             ELSE /\ size' = parsed
                  /\ slot' = 0
                  /\ pc' = IF 0 < parsed THEN "alphabet_symbol" ELSE "states_size"
                  /\ Prompted(<<>>)

\* create_alphabet counting a repeated symbol as a filled slot.
create_alphabet_symbol_counting_duplicates ==
    /\ Building("alphabet_symbol")
    /\ UNCHANGED <<states, start_state, size, pending_state, row, symbols,
                   constructor, parser, runner>>
    /\ \E answer \in SymbolAnswers :
         LET chars == trim(answer)
         IN  IF Len(chars) = 0
             THEN /\ UNCHANGED <<alphabet, slot, pc>>
                  /\ Prompted(<<"Entrada vacía, por favor ingrese un símbolo.">>)
             ELSE /\ alphabet' = alphabet \cup {CharAt(chars, 1)}
                  /\ slot' = slot + 1
                  /\ pc' = IF slot + 1 < size THEN "alphabet_symbol" ELSE "states_size"
                  /\ Prompted(IF CharAt(chars, 1) \in alphabet
                              THEN <<"El símbolo ya existe en el alfabeto.">>
                              ELSE <<>>)

create_alphabet_symbol ==
    /\ Building("alphabet_symbol")
    /\ UNCHANGED <<states, start_state, size, pending_state, row, symbols,
                   constructor, parser, runner>>
    /\ \E answer \in SymbolAnswers :
         LET chars == trim(answer)
         IN  IF Len(chars) = 0
             THEN /\ UNCHANGED <<alphabet, slot, pc>>
                  /\ Prompted(<<"Entrada vacía, por favor ingrese un símbolo.">>)
             ELSE IF CharAt(chars, 1) \in alphabet
             THEN /\ UNCHANGED <<alphabet, slot, pc>>
                  /\ Prompted(<<"El símbolo ya existe en el alfabeto.">>)
             ELSE /\ alphabet' = alphabet \cup {CharAt(chars, 1)}
                  /\ slot' = slot + 1
                  /\ pc' = IF slot + 1 < size THEN "alphabet_symbol" ELSE "states_size"
                  /\ Prompted(<<>>)

create_states_size ==
    /\ Building("states_size")
    /\ UNCHANGED <<alphabet, states, pending_state, constructor, parser, runner>>
    /\ \E answer \in CardinalityAnswers :
         LET parsed == parse_usize(trim(answer))
         IN  IF parsed = Err
             THEN /\ UNCHANGED <<size, slot, pc, start_state, row, symbols>>
                  /\ Prompted(<<"Error al leer la entrada.">>)
             ELSE /\ size' = parsed
                  /\ slot' = 0
                  /\ IF 0 < parsed
                     THEN pc' = "state_name" /\ UNCHANGED <<start_state, row, symbols>>
                     ELSE enter_create_transitions(states)
                  /\ Prompted(<<>>)

create_states_name ==
    /\ Building("state_name")
    /\ UNCHANGED <<alphabet, states, start_state, size, slot, row, symbols,
                   constructor, parser, runner>>
    /\ \E answer \in NameAnswers :
         IF trim(answer) \in states_name
         THEN /\ UNCHANGED <<pending_state, pc>>
              /\ Prompted(<<"El estado \"" \o trim(answer) \o "\" ya ha sido definido.">>)
         ELSE /\ pending_state' = trim(answer)
              /\ pc' = "state_accept"
              /\ Prompted(<<>>)

create_states_accept ==
    /\ Building("state_accept")
    /\ UNCHANGED <<alphabet, size, constructor, parser, runner>>
    /\ \E answer \in AcceptAnswers :
         IF trim(answer) \in {"s", "n"}
         THEN /\ states' = Append(states, Node_new(pending_state, trim(answer) = "s"))
              /\ slot' = slot + 1
              /\ pending_state' = ""
              /\ IF slot + 1 < size
                 THEN pc' = "state_name" /\ UNCHANGED <<start_state, row, symbols>>
                 ELSE enter_create_transitions(states')
              /\ Prompted(<<>>)
         ELSE /\ UNCHANGED <<states, slot, pending_state, pc, start_state, row, symbols>>
              /\ Prompted(<<"Opcion invalida.">>)

\* create_transitions going on to the next pair after an unknown name.
create_transitions_moving_on ==
    /\ Building("transition")
    /\ UNCHANGED <<alphabet, start_state, size, slot, pending_state,
                   constructor, parser, runner>>
    /\ \E answer \in TargetAnswers :
         LET next == find_state(states, trim(answer))
         IN  IF next = None
             THEN /\ UNCHANGED states
                  /\ next_pair
                  /\ Prompted(<<"El estado no existe.">>)
             ELSE /\ states' = add_transition(states, row, Head(symbols), next)
                  /\ next_pair
                  /\ Prompted(<<>>)

create_transitions ==
    /\ Building("transition")
    /\ UNCHANGED <<alphabet, start_state, size, slot, pending_state,
                   constructor, parser, runner>>
    /\ \E answer \in TargetAnswers :
         LET next == find_state(states, trim(answer))
         IN  IF next = None
             THEN /\ UNCHANGED <<states, pc, row, symbols>>
                  /\ Prompted(<<"El estado no existe.">>)
             ELSE /\ states' = add_transition(states, row, Head(symbols), next)
                  /\ next_pair
                  /\ Prompted(<<>>)

define_start_states ==
    /\ Building("start_state")
    /\ UNCHANGED <<alphabet, states, size, slot, pending_state, row, symbols,
                   constructor, parser, runner>>
    /\ \E answer \in TargetAnswers :
         LET start == find_state(states, trim(answer))
         IN  IF start = None
             THEN /\ UNCHANGED <<start_state, pc>>
                  /\ Prompted(<<"El estado no existe.">>)
             ELSE /\ start_state' = start
                  /\ pc' = "built"
                  /\ Prompted(<<>>)

Next ==
    \/ AlphabetLine
    \/ StateLine
    \/ StartStateLine
    \/ FinalLine
    \/ TransitionLine
    \/ OtherLine
    \/ ReturnDFA
    \/ \E w \in Words : RunCall(w)
    \/ RunStep
    \/ RunEnd
    \/ print_states
    \/ print_alphabet
    \/ print_start_state
    \/ print_accept_states
    \/ print_transitions
    \/ tupla
    \/ create_alphabet_size
    \/ create_alphabet_symbol
    \/ create_states_size
    \/ create_states_name
    \/ create_states_accept
    \/ create_transitions
    \/ define_start_states

Spec == Init /\ [][Next]_vars

TypeOK ==
    /\ line_no \in 0..Len(text)
    /\ pc \in {"parsing", "panicked", "built", "running", "returned",
              "alphabet_size", "alphabet_symbol", "states_size", "state_name",
              "state_accept", "transition", "start_state"}
    /\ constructor \in {"from_string", "new"}
    /\ start_state \in {None, EmptyPtr} \cup 0..Len(states)
    /\ current_state \in {EmptyPtr} \cup 0..Len(states)
    /\ pc = "transition" => row \in 1..Len(states) /\ symbols # <<>>
    /\ result \in {"none", "true", "false"}

(***************************************************************************)
(* The transition function extended to words, read off the stored maps:    *)
(* the node reached from `from` by the first k characters of w, None when  *)
(* one of them has no transition.                                          *)
(***************************************************************************)
RECURSIVE Reached(_, _, _, _)
Reached(sts, from, w, k) ==
    IF k = 0 THEN from
    ELSE LET p == Reached(sts, from, w, k - 1)
         IN  IF p = None THEN None
             ELSE IF CharAt(w, k) \in DOMAIN Deref(sts, p).transitions
             THEN Deref(sts, p).transitions[CharAt(w, k)]
             ELSE None

Accepted(sts, from, w) ==
    /\ Reached(sts, from, w, Len(w)) # None
    /\ Deref(sts, Reached(sts, from, w, Len(w))).is_accept

\* The k-th character of the input is the first one without a transition.
StuckAt(k) ==
    /\ k \in 1..Len(input)
    /\ Reached(states, start_state, input, k - 1) # None
    /\ Reached(states, start_state, input, k) = None

\* C1: run starts at the start state, follows the stored transition of each
\* symbol in order, and returns true exactly when every symbol had a
\* transition and the state reached after the last one is accepting.
C1_RunFollowsTransitions ==
    /\ pc = "running" =>
            /\ pos \in 1..(Len(input) + 1)
            /\ current_state = Reached(states, start_state, input, pos - 1)
            /\ current_state # None
    /\ pc = "returned" =>
            result = IF Accepted(states, start_state, input) THEN "true" ELSE "false"

C1_Witness ==
    /\ pc = "returned"
    /\ result = "true"
    /\ Len(input) >= 2
    /\ current_state # start_state

\* C2: a symbol without a transition from the current state stops run at
\* that symbol with the result false, whatever follows it.
C2_MissingTransitionRejects ==
    \A k \in 1..Len(input) :
        StuckAt(k) =>
            /\ pc = "running" => pos <= k
            /\ pc = "returned" =>
                    /\ result = "false"
                    /\ pos = k
                    /\ current_state = Reached(states, start_state, input, k - 1)
                    /\ printed = <<"No hay transición para el símbolo " \o CharAt(input, k)>>

\* Stopped at a symbol outside the alphabet although the rest of the input
\* leads from the current state to an accepting one.
C2_Witness ==
    /\ pc = "returned"
    /\ \E k \in 1..(Len(input) - 1) :
            /\ StuckAt(k)
            /\ CharAt(input, k) \notin alphabet
            /\ Accepted(states, current_state, SubSeq(input, k + 1, Len(input)))

\* C3: the empty input is accepted if and only if the start state is accepting.
C3_EmptyInput ==
    (pc = "returned" /\ input = "") =>
        (result = "true" <=> Deref(states, start_state).is_accept)

C3_Witness ==
    pc = "returned" /\ input = "" /\ result = "true" /\ start_state # 0

\* C4: on the sample description "0110" ends in q1q2 and is accepted, "0" and
\* "" end in q0 and are rejected.
C4_Sample ==
    text = SampleText =>
        /\ pc # "panicked"
        /\ (pc = "returned" /\ input = "0110") =>
                result = "true" /\ Deref(states, current_state).state = "q1q2"
        /\ (pc = "returned" /\ input \in {"0", ""}) =>
                result = "false" /\ Deref(states, current_state).state = "q0"

C4_Witness ==
    /\ text = SampleText
    /\ pc = "returned"
    /\ input = "0110"
    /\ result = "true"
    /\ Len(states) = 4

\* C5: no step of run changes the automaton, and a call of run with the input
\* of the call before it returns what that call returned.
C5_RunStep ==
    /\ pc \in {"built", "running", "returned"} => dfa' = dfa
    /\ (pc' = "returned" /\ prev_result' # "none") => result' = prev_result'

C5_RunLeavesAutomaton == [][C5_RunStep]_vars

C5_Witness ==
    /\ pc = "returned"
    /\ prev_result = "true"
    /\ result = "true"
    /\ Len(input) >= 1

(***************************************************************************)
(* What the lines of the text say, read off the text itself.               *)
(***************************************************************************)
KindOf(i) == LineKind(trim(text[i]))

\* The names a `state=` line declares.
DeclaredNames(i) ==
    LET nodes == state_line(<<>>, trim(text[i]))
    IN  {nodes[k].state : k \in 1..Len(nodes)}

\* The name is declared by a `state=` line before line i.
DeclaredBefore(i, name) ==
    \E j \in 1..(i - 1) : KindOf(j) = "state" /\ name \in DeclaredNames(j)

NoStateLineBefore(i) == \A j \in 1..(i - 1) : KindOf(j) # "state"

StartName(i) == trim_start_matches(trim(text[i]), "start_state=")

\* The two states a transition line of the form `(state, symbol)->next` names.
TransitionSource(i) ==
    LET left == trim(split(trim(text[i]), "->")[1])
    IN  trim(split(SubSeq(left, 2, Len(left) - 1), ",")[1])

TransitionTarget(i) == trim(split(trim(text[i]), "->")[2])

WellFormedTransition(line) ==
    /\ Len(split(line, "->")) >= 2
    /\ LET left == trim(split(line, "->")[1])
       IN  /\ Len(left) >= 2
           /\ Len(split(SubSeq(left, 2, Len(left) - 1), ",")) >= 2
           /\ Len(trim(split(SubSeq(left, 2, Len(left) - 1), ",")[2])) > 0

\* DFA::from_string has returned the automaton.
Built == constructor = "from_string" /\ pc \in {"built", "running", "returned"}

\* C6: a `start_state=` line whose name no earlier `state=` line declared
\* aborts the parse there; otherwise the named state becomes the start state.
C6_StartStateLine ==
    \A i \in 1..line_no :
        KindOf(i) = "start_state" =>
            IF DeclaredBefore(i, StartName(i))
            THEN /\ pc = "panicked" => line_no > i
                 /\ (\A j \in (i + 1)..line_no : KindOf(j) # "start_state") =>
                        /\ start_state \in 1..Len(states)
                        /\ states[start_state].state = StartName(i)
            ELSE pc = "panicked" /\ line_no = i

\* The parse aborted at a `start_state=` line whose state a later line declares.
C6_Witness ==
    /\ pc = "panicked"
    /\ line_no >= 1
    /\ KindOf(line_no) = "start_state"
    /\ \E j \in (line_no + 1)..Len(text) :
            KindOf(j) = "state" /\ StartName(line_no) \in DeclaredNames(j)

\* C7 as stated: a transition line or a `start_state=` line that no `state=`
\* line precedes does not make the parse fail.
C7_PlaceholderInsteadOfFailure ==
    \A i \in 1..line_no :
        (KindOf(i) \in {"transition", "start_state"} /\ NoStateLineBefore(i)) =>
            pc # "panicked"

\* C7 as amended: such a line aborts the parse; the automaton of a text
\* without any `state=` line has no state and the initial node as start state.
C7_NoStateLine ==
    /\ \A i \in 1..line_no :
            (KindOf(i) \in {"transition", "start_state"} /\ NoStateLineBefore(i)) =>
                pc = "panicked" /\ line_no = i
    /\ (Built /\ NoStateLineBefore(Len(text) + 1)) =>
            /\ states = <<>>
            /\ start_state = 0
            /\ Deref(states, start_state) = [state |-> "", is_accept |-> FALSE,
                                             transitions |-> <<>>]

C7_Witness ==
    /\ pc = "panicked"
    /\ line_no >= 2
    /\ KindOf(line_no) = "transition"
    /\ NoStateLineBefore(line_no)

\* C8 as stated: a transition line whose state or whose next_state is not
\* declared aborts the parse.
C8_UnknownStateAborts ==
    \A i \in 1..line_no :
        (/\ KindOf(i) = "transition"
         /\ WellFormedTransition(trim(text[i]))
         /\ \/ ~DeclaredBefore(i, TransitionSource(i))
            \/ ~DeclaredBefore(i, TransitionTarget(i))) =>
            pc = "panicked" /\ line_no = i

IsDeclared(name) == \E k \in 1..Len(states) : states[k].state = name

\* C8 as amended: an undeclared state aborts the parse; an undeclared
\* next_state of a declared state prints a diagnostic, adds no transition and
\* the parse goes on.
C8_TransitionLineStep ==
    (/\ HasLine
     /\ LineKind(CurrentLine) = "transition"
     /\ WellFormedTransition(CurrentLine)) =>
        /\ ~IsDeclared(TransitionSource(line_no + 1)) =>
                pc' = "panicked" /\ states' = states
        /\ (/\ IsDeclared(TransitionSource(line_no + 1))
            /\ ~IsDeclared(TransitionTarget(line_no + 1))) =>
                /\ pc' = "parsing"
                /\ line_no' = line_no + 1
                /\ dfa' = dfa
                /\ printed' = Append(printed, "El estado destino \""
                                \o TransitionTarget(line_no + 1) \o "\" no existe.")

C8_UnknownTargetIsReported == [][C8_TransitionLineStep]_vars

\* An automaton was returned although a transition line named an undeclared
\* destination.
C8_Witness ==
    /\ pc = "built"
    /\ \E i \in 1..line_no :
            /\ KindOf(i) = "transition"
            /\ DeclaredBefore(i, TransitionSource(i))
            /\ ~DeclaredBefore(i, TransitionTarget(i))
    /\ Len(printed) >= 1

\* The names an `F=` line lists.
FinalNames(i) ==
    LET pieces == split(trim_matches_braces(trim(trim_start_matches(trim(text[i]), "F="))),
                        ",")
    IN  {trim(pieces[k]) : k \in 1..Len(pieces)}

RECURSIVE DeclaredCount(_)
\* How many states the `state=` lines before line i declare.
DeclaredCount(i) ==
    IF i <= 1 THEN 0
    ELSE DeclaredCount(i - 1)
            + (IF KindOf(i - 1) = "state"
               THEN Len(state_line(<<>>, trim(text[i - 1])))
               ELSE 0)

\* C9: an `F=` line with an undeclared name does not abort the parse, every
\* state declared before it that it names is accepting afterwards, and a state
\* is accepting only if an `F=` line named it.
C9_FinalLineMarksNamedStates ==
    /\ \A i \in 1..line_no :
            KindOf(i) = "F" =>
                /\ pc = "panicked" => line_no > i
                /\ \A k \in 1..DeclaredCount(i) :
                        states[k].state \in FinalNames(i) => states[k].is_accept
    /\ \A k \in 1..Len(states) :
            (constructor = "from_string" /\ states[k].is_accept) =>
                \E i \in 1..line_no :
                    /\ KindOf(i) = "F"
                    /\ k <= DeclaredCount(i)
                    /\ states[k].state \in FinalNames(i)

\* C10: the start state of a returned automaton is one of its states.
C10_StartStateIsMember ==
    Built => start_state \in 1..Len(states)

\* C11: no two states of a returned automaton have the same name.
C11_UniqueStateNames ==
    Built =>
        \A a, b \in 1..Len(states) : states[a].state = states[b].state => a = b

TransitionSymbol(i) ==
    LET left == trim(split(trim(text[i]), "->")[1])
    IN  CharAt(trim(split(SubSeq(left, 2, Len(left) - 1), ",")[2]), 1)

\* Line i is a transition line that names two declared states.
StoresTransition(i) ==
    /\ KindOf(i) = "transition"
    /\ WellFormedTransition(trim(text[i]))
    /\ DeclaredBefore(i, TransitionSource(i))
    /\ DeclaredBefore(i, TransitionTarget(i))

\* C13: of the transition lines that name the same state and symbol with a
\* declared target, the last one decides the destination stored for the pair.
C13_LastTransitionLineWins ==
    \A i \in 1..line_no :
        (/\ StoresTransition(i)
         /\ \A j \in (i + 1)..line_no :
                ~(/\ StoresTransition(j)
                  /\ TransitionSource(j) = TransitionSource(i)
                  /\ TransitionSymbol(j) = TransitionSymbol(i))) =>
            LET from == states[find_state(states, TransitionSource(i))]
            IN  /\ TransitionSymbol(i) \in DOMAIN from.transitions
                /\ from.transitions[TransitionSymbol(i)] \in 1..Len(states)
                /\ states[from.transitions[TransitionSymbol(i)]].state
                       = TransitionTarget(i)

\* Two lines gave the same pair different targets.
C13_Witness ==
    /\ pc = "built"
    /\ \E i, j \in 1..line_no :
            /\ i < j
            /\ StoresTransition(i)
            /\ StoresTransition(j)
            /\ TransitionSource(j) = TransitionSource(i)
            /\ TransitionSymbol(j) = TransitionSymbol(i)
            /\ TransitionTarget(j) # TransitionTarget(i)

\* A trimmed line that is blank or begins with none of the five prefixes.
Ignored(line) ==
    \/ line = ""
    \/ /\ ~starts_with(line, "alphabet=")
       /\ ~starts_with(line, "state=")
       /\ ~starts_with(line, "start_state=")
       /\ ~starts_with(line, "F=")
       /\ ~starts_with(line, "(")

\* C18: such a line changes nothing of the automaton and the parse goes on.
C18_IgnoredLineStep ==
    (/\ pc = "parsing"
     /\ line_no < Len(text)
     /\ Ignored(trim(text[line_no + 1]))) =>
        /\ dfa' = dfa
        /\ final_states' = final_states
        /\ pc' = "parsing"
        /\ line_no' = line_no + 1

C18_OtherLinesAreIgnored == [][C18_IgnoredLineStep]_vars

\* An automaton with states was returned although a line that is not blank
\* was not recognised.
C18_Witness ==
    /\ pc = "built"
    /\ Len(states) > 0
    /\ \E i \in 1..Len(text) : Ignored(trim(text[i])) /\ trim(text[i]) # ""

\* C19: a state is accepting only if an `F=` line after its declaration names
\* it; no `F=` line aborts the parse.
C19_FinalLineSeesEarlierStatesOnly ==
    /\ \A k \in 1..Len(states) :
            constructor = "from_string" => (states[k].is_accept <=>
                /\ \E i \in 1..line_no :
                        /\ KindOf(i) = "F"
                        /\ k <= DeclaredCount(i)
                        /\ states[k].state \in FinalNames(i)
                /\ \A j \in 1..(k - 1) : states[j].state # states[k].state)
    /\ \A i \in 1..line_no : (KindOf(i) = "F" /\ pc = "panicked") => line_no > i

\* A state that only an earlier `F=` line names is not accepting in the
\* returned automaton.
C19_Witness ==
    /\ pc = "built"
    /\ \E k \in 1..Len(states) :
            /\ ~states[k].is_accept
            /\ \A j \in 1..(k - 1) : states[j].state # states[k].state
            /\ \E i \in 1..line_no :
                    /\ KindOf(i) = "F"
                    /\ k > DeclaredCount(i)
                    /\ states[k].state \in FinalNames(i)

(***************************************************************************)
(* DFA::from_string as a function of the lines of its argument.            *)
(***************************************************************************)
parse_line(st, line) ==
    IF st.panicked THEN st
    ELSE IF LineKind(line) = "alphabet"
    THEN [st EXCEPT !.alphabet = alphabet_line(@, line)]
    ELSE IF LineKind(line) = "state"
    THEN [st EXCEPT !.states = state_line(@, line)]
    ELSE IF LineKind(line) = "start_state"
    THEN IF start_state_line(st.states, line) = None
         THEN [st EXCEPT !.panicked = TRUE]
         ELSE [st EXCEPT !.start_state = start_state_line(st.states, line)]
    ELSE IF LineKind(line) = "F"
    THEN LET finals == final_line_extend(st.states, st.final_states, line)
         IN  [st EXCEPT !.final_states = finals,
                        !.states = mark_accept(st.states, finals)]
    ELSE IF LineKind(line) = "transition"
    THEN LET r == create_transitions_for_dfa(st.states, line)
         IN  [st EXCEPT !.states = r.states, !.panicked = r.panicked]
    ELSE st

RECURSIVE from_string_lines(_, _)
from_string_lines(lines, n) ==
    IF n = 0
    THEN [panicked |-> FALSE, alphabet |-> {}, states |-> <<>>, start_state |-> 0,
          final_states |-> <<>>]
    ELSE parse_line(from_string_lines(lines, n - 1), trim(lines[n]))

from_string(lines) == from_string_lines(lines, Len(lines))

\* The text with every `alphabet=` line replaced by one that lists other symbols.
WithOtherAlphabet(lines) ==
    [i \in 1..Len(lines) |->
        IF starts_with(trim(lines[i]), "alphabet=") THEN "alphabet={a, b}" ELSE lines[i]]

\* C20: the description that differs only in its `alphabet=` lines fails or
\* succeeds alike, gives the same states, transitions and start state, and
\* run ends in the same state with the same result on every input.
C20_AlphabetHasNoInfluence ==
    (/\ constructor = "from_string"
     /\ alphabet # {}
     /\ pc \in {"panicked", "built", "returned"}) =>
        LET other == from_string(WithOtherAlphabet(text))
        IN  /\ other.panicked <=> pc = "panicked"
            /\ Built =>
                    /\ other.alphabet # alphabet
                    /\ other.states = states
                    /\ other.start_state = start_state
            /\ pc = "returned" =>
                    /\ result = IF Accepted(other.states, other.start_state, input)
                                THEN "true" ELSE "false"
                    /\ Reached(other.states, other.start_state, input, Len(input)) # None
                            => current_state = Reached(other.states, other.start_state,
                                                       input, Len(input))

\* run followed a transition on a symbol that the alphabet does not hold.
C20_Witness ==
    /\ pc = "returned"
    /\ alphabet # {}
    /\ Len(input) >= 1
    /\ \A k \in 1..Len(input) : CharAt(input, k) \notin alphabet
    /\ Reached(states, start_state, input, Len(input)) # None
    /\ current_state # start_state

\* C14: a step of a render operation leaves the alphabet, the states with
\* their flags and transition maps, and the start state as they were.
C14_RenderStep ==
    (Idle /\ pc' = "built") => dfa' = dfa

C14_RenderLeavesAutomaton == [][C14_RenderStep]_vars

\* The transitions were listed and then the 5-tuple of an automaton that has
\* an alphabet, an accepting state and a transition.
C14_Witness ==
    /\ pc = "built"
    /\ Len(printed) = 1
    /\ starts_with(printed[1], "A = <Q = {q")
    /\ alphabet # {}
    /\ \E k \in 1..Len(states) : states[k].is_accept
    /\ \E k \in 1..Len(states) : DOMAIN states[k].transitions # {}

(***************************************************************************)
(* DFA::new.                                                               *)
(***************************************************************************)
\* DFA::new has returned the automaton.
BuiltByNew == constructor = "new" /\ pc \in {"built", "running", "returned"}

TargetsAreMembers(sts) ==
    \A k \in 1..Len(sts) :
        \A c \in DOMAIN sts[k].transitions : sts[k].transitions[c] \in 1..Len(sts)

UniqueNames(sts) ==
    \A a, b \in 1..Len(sts) : sts[a].state = sts[b].state => a = b

\* C12: at every point of from_string and of the dialogue of DFA::new, the
\* destination of every stored transition is a member of the state list.
C12_TransitionsStayInStates == TargetsAreMembers(states)

C12_Witness ==
    /\ BuiltByNew
    /\ \E k \in 1..Len(states) :
            /\ DOMAIN states[k].transitions = alphabet
            /\ \E c \in alphabet : states[k].transitions[c] # k

\* C15 as the specification states it: every automaton DFA::new returns, a
\* state cardinality of 0 included, has its start state in its state list,
\* transitions into its state list only, and pairwise different state names.
C15_NewSatisfiesInvariants ==
    BuiltByNew =>
        /\ start_state \in 1..Len(states)
        /\ TargetsAreMembers(states)
        /\ UniqueNames(states)

\* C16: create_transitions leaves a (state, symbol) pair only by storing a
\* transition for it to an existing state; an answer that names no state
\* changes no state; so once create_transitions has returned, every state
\* has a transition for exactly the symbols of the alphabet.
C16_Step ==
    /\ Building("transition") =>
            IF <<pc', row', symbols'>> = <<pc, row, symbols>>
            THEN states' = states
            ELSE /\ Head(symbols) \in DOMAIN states'[row].transitions
                 /\ states'[row].transitions[Head(symbols)] \in 1..Len(states)
                 /\ \A k \in 1..Len(states) : \A c \in alphabet :
                        (k # row \/ c # Head(symbols)) =>
                            next_state(states'[k], c) = next_state(states[k], c)
    /\ (constructor' = "new" /\ pc' \in {"start_state", "built", "running", "returned"}) =>
            \A k \in 1..Len(states') : DOMAIN states'[k].transitions = alphabet'

C16_EveryPairAnswered == [][C16_Step]_vars

C16_Witness ==
    /\ constructor = "new"
    /\ pc = "start_state"
    /\ Len(states) = 2
    /\ Cardinality(alphabet) = 2
    /\ \A k \in 1..Len(states) : DOMAIN states[k].transitions = alphabet

\* C17: in create_alphabet and create_states the slot counter equals the
\* number of distinct symbols, or of states, accepted so far, so a rejected
\* duplicate fills no slot; create_alphabet returns exactly as many symbols
\* as the cardinality entered, and create_states exactly as many states,
\* with pairwise different names.
C17_SlotsCountDistinctEntries ==
    constructor = "new" =>
        /\ pc = "alphabet_symbol" => Cardinality(alphabet) = slot /\ slot < size
        /\ pc = "states_size" => Cardinality(alphabet) = size
        /\ pc \in {"state_name", "state_accept"} =>
                /\ Len(states) = slot
                /\ slot < size
                /\ UniqueNames(states)
                /\ pc = "state_accept" => pending_state \notin states_name
        /\ pc \in {"transition", "start_state", "built", "running", "returned"} =>
                /\ Len(states) = size
                /\ UniqueNames(states)

C17_Witness ==
    /\ constructor = "new"
    /\ pc = "state_name"
    /\ Cardinality(alphabet) = 2
    /\ Len(states) = 1
    /\ printed[1] = "El estado \"" \o states[1].state \o "\" ya ha sido definido."

====
